---- MODULE Spec2Model ----
(***************************************************************************)
(* The two DWARF fixtures of testWorkspace/web/dwarf:                      *)
(*   fibonacci.c      fib (iterative Fibonacci) and main                   *)
(*   c-with-struct.c  data_t, process (the breakpoint site) and _start     *)
(* A behaviour is one invocation by the host of one of the four functions, *)
(* executed one source line at a time, as a debugger steps it.             *)
(* int is the 32-bit two's complement int of the wasm32 target.            *)
(***************************************************************************)
EXTENDS Integers, Sequences, FiniteSets, TLC

VARIABLES
  entry,       \* the invocation: [fn, arg]
  fibF,        \* frame of fib:    [pc, n, a, b, c, i, init]
  mainF,       \* frame of main:   [pc, a, b]
  startF,      \* frame of _start: [pc, data] (data = address of the local)
  procF,       \* frame of process:[pc, data] (data = the pointer argument)
  mem,         \* linear memory, one byte per address
  ret,         \* return-value channel: <<>> or <<v>>
  out,         \* standard output: one element per printf call
  calls,       \* log of completed calls: [fn, arg, rv, iters]
  iters,       \* completed executions of the loop body in the current fib
  overflow,    \* an addition of the current fib left the range of int
  uninitRead,  \* a local was read before it was written
  loads        \* addresses whose content the program has read

vars == <<entry, fibF, mainF, startF, procF, mem, ret, out, calls,
          iters, overflow, uninitRead, loads>>

-----------------------------------------------------------------------------
(* Bounds of the model *)
MaxN == 48
MaxNeg == 2
MemSize == 32

(* int *)
INT_MAX == 2147483647
INT_MIN == -2147483647 - 1
IntSize == 4

\* what an uninitialised int on the stack may hold
Garbage == {INT_MIN, 0, 7, INT_MAX}
\* what the bytes of memory hold before the program writes them
Fills == {0, 170, 255}

NoFrame == [pc |-> "none"]

-----------------------------------------------------------------------------
(* Signed 32-bit addition.  Overflow is undefined: the build either wraps   *)
(* (i32.add) or traps (-ftrapv).                                            *)
Overflows(x, y) ==
  \/ x > 0 /\ y > INT_MAX - x
  \/ x < 0 /\ y < INT_MIN - x

WrapAdd(x, y) ==
  IF x > 0 /\ y > INT_MAX - x THEN (x + INT_MIN) + (y + INT_MIN)
  ELSE IF x < 0 /\ y < INT_MIN - x THEN (x - INT_MIN) + (y - INT_MIN)
  ELSE x + y

-----------------------------------------------------------------------------
(* fibonacci.c : fib, one operator per line; each gives the set of frames   *)
(* the line can leave behind.                                               *)

\* entry of fib(n): the locals hold whatever the stack held
fibEntry(n) ==
  {[pc |-> "l4", n |-> n, a |-> g, b |-> g, c |-> g, i |-> g, init |-> {"n"}]
     : g \in Garbage}

\* Line4 with b starting at 1
Line4_bOne(f) ==
  {[f EXCEPT !.b = 1, !.c = 1, !.init = @ \cup {"b", "c"}, !.pc = "l5init"]}

\* int a, b = 0, c = 1;
Line4(f) ==
  {[f EXCEPT !.b = 0, !.c = 1, !.init = @ \cup {"b", "c"}, !.pc = "l5init"]}

\* Line5Init with the counter starting at 0
Line5Init_zero(f) ==
  {[f EXCEPT !.i = 0, !.init = @ \cup {"i"}, !.pc = "l5cond"]}

\* for (int i = 1; ...
Line5Init(f) ==
  {[f EXCEPT !.i = 1, !.init = @ \cup {"i"}, !.pc = "l5cond"]}

\* LoopCond with an inclusive test
LoopCond_inclusive(i, n) == i <= n

\* ... i < n; ...
LoopCond(i, n) == i < n

Line5Cond(f) ==
  {[f EXCEPT !.pc = IF LoopCond(f.i, f.n) THEN "l6" ELSE "l10"]}

\* Line6 with the assignment left out
Line6_skipped(f) ==
  {[f EXCEPT !.pc = "l7"]}

\* a = b;
Line6(f) ==
  {[f EXCEPT !.a = f.b, !.init = @ \cup {"a"}, !.pc = "l7"]}

\* b = c;
Line7(f) ==
  {[f EXCEPT !.b = f.c, !.pc = "l8"]}

\* Line8 adding a to itself
Line8_aTwice(f) ==
  IF Overflows(f.a, f.a)
  THEN {[f EXCEPT !.c = WrapAdd(f.a, f.a), !.pc = "l5inc"],
        [f EXCEPT !.pc = "trap"]}
  ELSE {[f EXCEPT !.c = f.a + f.a, !.pc = "l5inc"]}

\* c = a + b;
Line8(f) ==
  IF Overflows(f.a, f.b)
  THEN {[f EXCEPT !.c = WrapAdd(f.a, f.b), !.pc = "l5inc"],
        [f EXCEPT !.pc = "trap"]}
  ELSE {[f EXCEPT !.c = f.a + f.b, !.pc = "l5inc"]}

\* ... ++i)
Line5Inc(f) ==
  IF Overflows(f.i, 1)
  THEN {[f EXCEPT !.i = WrapAdd(f.i, 1), !.pc = "l5cond"],
        [f EXCEPT !.pc = "trap"]}
  ELSE {[f EXCEPT !.i = f.i + 1, !.pc = "l5cond"]}

\* the locals a line reads
Reads(f) ==
  CASE f.pc = "l5cond" -> {"i", "n"}
    [] f.pc = "l6"     -> {"b"}
    [] f.pc = "l7"     -> {"c"}
    [] f.pc = "l8"     -> {"a", "b"}
    [] f.pc = "l5inc"  -> {"i"}
    [] f.pc = "l10"     -> {"c"}
    [] OTHER            -> {}

fibStep(f) ==
  CASE f.pc = "l4"     -> Line4(f)
    [] f.pc = "l5init" -> Line5Init(f)
    [] f.pc = "l5cond" -> Line5Cond(f)
    [] f.pc = "l6"     -> Line6(f)
    [] f.pc = "l7"     -> Line7(f)
    [] f.pc = "l8"     -> Line8(f)
    [] f.pc = "l5inc"  -> Line5Inc(f)
    [] OTHER            -> {}

\* Line10 returning b
Line10_returnsB(f) == f.b

\* return c;
Line10(f) == f.c

\* one line more, for a frame that has not reached return c;
fibStay(f) == IF f.pc = "l10" THEN {f} ELSE fibStep(f)

\* the frames k lines after the frames of F
RECURSIVE fibSteps(_, _)
fibSteps(F, k) ==
  IF k = 0 THEN F
  ELSE IF k = 1 THEN UNION {fibStay(f) : f \in F}
  ELSE LET G == fibSteps(F, k \div 2)
       IN  IF G = {} THEN {} ELSE fibSteps(G, k - (k \div 2))

\* more lines than a call fib(n) runs: two before the loop, five per
\* iteration, one test after it
StepBound(n) == 5 * (IF n > 0 THEN n ELSE 0) + 8

\* the values a run of fib from frame f can return
fibRun(f) ==
  {Line10(g) : g \in {h \in fibSteps({f}, StepBound(f.n)) : h.pc = "l10"}}

\* the values fib(n) can return
fib(n) == UNION {fibRun(f) : f \in fibEntry(n)}

-----------------------------------------------------------------------------
(* fibonacci.c : main *)

\* printf("... %d\n", v): the text written for format prefix p and int v
printf_d(p, v) == p \o ToString(v) \o "\n"

mainEntry == {[pc |-> "l14", a |-> g, b |-> g] : g \in Garbage}

-----------------------------------------------------------------------------
(* c-with-struct.c : data_t in linear memory (little-endian) *)

\* the characters of "Hello world"
HelloWorld == <<72, 101, 108, 108, 111, 32, 119, 111, 114, 108, 100>>

\* IdSize with no room for the terminator
IdSize_noTerminator == Len(HelloWorld)

\* char id[12];
IdSize == 12

AlignUp(x, al) == ((x + al - 1) \div al) * al

\* offsets of the members and sizeof(data_t)
OffId == 0
OffX == AlignUp(OffId + IdSize, IntSize)
OffY == OffX + IntSize
SizeofData == AlignUp(OffY + IntSize, IntSize)

\* the array a string literal denotes: its characters and a terminating 0
StrLit(chars) == chars \o <<0>>

\* char arr[size] = lit: successive bytes of the literal, as far as there
\* is room, and zeros in what remains
InitCharArray(lit, size) ==
  [k \in 1..size |-> IF k <= Len(lit) THEN lit[k] ELSE 0]

\* the four bytes of an int
I32Bytes(v) ==
  <<v % 256, (v \div 256) % 256, (v \div 65536) % 256,
    (v \div 16777216) % 256>>

\* the int held by the four bytes at addr
LoadI32(m, addr) ==
  LET b3 == m[addr + 3]
      hi == IF b3 >= 128 THEN b3 - 256 ELSE b3
  IN  m[addr] + 256 * m[addr + 1] + 65536 * m[addr + 2] + 16777216 * hi

StoreBytes(m, addr, bytes) ==
  [k \in DOMAIN m |->
     IF k >= addr /\ k < addr + Len(bytes) THEN bytes[k - addr + 1] ELSE m[k]]

\* Line15 with the initialisers of x and y exchanged
Line15_swapped(m, d) ==
  LET m1 == StoreBytes(m, d + OffId, InitCharArray(StrLit(HelloWorld), IdSize))
      m2 == StoreBytes(m1, d + OffX, I32Bytes(34))
  IN  StoreBytes(m2, d + OffY, I32Bytes(12))

\* data_t data = { .id = "Hello world", .x = 12, .y = 34 };
Line15(m, d) ==
  LET m1 == StoreBytes(m, d + OffId, InitCharArray(StrLit(HelloWorld), IdSize))
      m2 == StoreBytes(m1, d + OffX, I32Bytes(12))
  IN  StoreBytes(m2, d + OffY, I32Bytes(34))

\* what the debugger shows for *(data_t*)p
ReadData(m, p) ==
  [id |-> [k \in 1..IdSize |-> m[p + OffId + k - 1]],
   x  |-> LoadI32(m, p + OffX),
   y  |-> LoadI32(m, p + OffY)]

\* process returning the byte its argument points to
process_deref(data, m) ==
  [rv |-> IF data \in DOMAIN m THEN m[data] ELSE 0, loads |-> {data}]

\* int process(void *data) { return 0; } : the value returned and the
\* addresses read
process(data, m) == [rv |-> 0, loads |-> {}]

\* the stack pointers _start can be entered with
StackTops == {t \in SizeofData..MemSize : t % IntSize = 0}

startEntry(sp) == [pc |-> "l15", data |-> sp - SizeofData]

-----------------------------------------------------------------------------
Init ==
  /\ entry \in [fn : {"fib"}, arg : (-MaxNeg)..MaxN]
                 \cup [fn : {"main"}, arg : {0}]
                 \cup [fn : {"_start"}, arg : StackTops]
                 \cup [fn : {"process"}, arg : 0..MemSize]
  /\ fibF \in IF entry.fn = "fib" THEN fibEntry(entry.arg) ELSE {NoFrame}
  /\ mainF \in IF entry.fn = "main" THEN mainEntry ELSE {NoFrame}
  /\ startF = IF entry.fn = "_start" THEN startEntry(entry.arg) ELSE NoFrame
  /\ procF = IF entry.fn = "process"
             THEN [pc |-> "l11", data |-> entry.arg] ELSE NoFrame
  /\ \E fill \in IF entry.fn \in {"_start", "process"} THEN Fills ELSE {0} :
       mem = [k \in 0..(MemSize - 1) |-> fill]
  /\ ret = <<>>
  /\ out = <<>>
  /\ calls = <<>>
  /\ iters = 0
  /\ overflow = FALSE
  /\ uninitRead = FALSE
  /\ loads = {}

Call(fn, arg, rv, n) == [fn |-> fn, arg |-> arg, rv |-> rv, iters |-> n]

(* ---- fib ---- *)
\* the line at l of fib runs
FibLine(l) ==
  /\ fibF.pc = l
  /\ fibF' \in fibStep(fibF)
  /\ uninitRead' = (uninitRead \/ ~(Reads(fibF) \subseteq fibF.init))

Fib4 ==
  /\ FibLine("l4")
  /\ UNCHANGED <<entry, mainF, startF, procF, mem, ret, out, calls, iters,
                 overflow, loads>>

Fib5Init ==
  /\ FibLine("l5init")
  /\ UNCHANGED <<entry, mainF, startF, procF, mem, ret, out, calls, iters,
                 overflow, loads>>

Fib5Cond ==
  /\ FibLine("l5cond")
  /\ UNCHANGED <<entry, mainF, startF, procF, mem, ret, out, calls, iters,
                 overflow, loads>>

Fib6 ==
  /\ FibLine("l6")
  /\ UNCHANGED <<entry, mainF, startF, procF, mem, ret, out, calls, iters,
                 overflow, loads>>

Fib7 ==
  /\ FibLine("l7")
  /\ UNCHANGED <<entry, mainF, startF, procF, mem, ret, out, calls, iters,
                 overflow, loads>>

Fib8 ==
  /\ FibLine("l8")
  /\ overflow' = (overflow \/ Overflows(fibF.a, fibF.b))
  /\ iters' = IF fibF'.pc = "trap" THEN iters ELSE iters + 1
  /\ UNCHANGED <<entry, mainF, startF, procF, mem, ret, out, calls, loads>>

Fib5Inc ==
  /\ FibLine("l5inc")
  /\ overflow' = (overflow \/ Overflows(fibF.i, 1))
  /\ UNCHANGED <<entry, mainF, startF, procF, mem, ret, out, calls, iters,
                 loads>>

Fib10 ==
  /\ fibF.pc = "l10"
  /\ ret' = <<Line10(fibF)>>
  /\ calls' = Append(calls, Call("fib", fibF.n, Line10(fibF), iters))
  /\ uninitRead' = (uninitRead \/ ~(Reads(fibF) \subseteq fibF.init))
  /\ fibF' = NoFrame
  /\ UNCHANGED <<entry, mainF, startF, procF, mem, out, iters, overflow,
                 loads>>

(* ---- main ---- *)
\* the call of fib(n) at line l
MainCall(l, n) ==
  /\ mainF.pc = l
  /\ fibF' \in fibEntry(n)
  /\ iters' = 0
  /\ UNCHANGED <<entry, startF, procF, mem, ret, out, calls, overflow,
                 uninitRead, loads>>

\* int a = fib(9);
Main14Call ==
  /\ MainCall("l14", 9)
  /\ mainF' = [mainF EXCEPT !.pc = "l14ret"]

Main14Ret ==
  /\ mainF.pc = "l14ret" /\ fibF.pc = "none" /\ ret # <<>>
  /\ mainF' = [mainF EXCEPT !.a = ret[1], !.pc = "l15"]
  /\ ret' = <<>>
  /\ UNCHANGED <<entry, fibF, startF, procF, mem, out, calls, iters,
                 overflow, uninitRead, loads>>

\* printf("9th fib: %d\n", a);
Main15 ==
  /\ mainF.pc = "l15"
  /\ out' = Append(out, printf_d("9th fib: ", mainF.a))
  /\ mainF' = [mainF EXCEPT !.pc = "l16"]
  /\ UNCHANGED <<entry, fibF, startF, procF, mem, ret, calls, iters,
                 overflow, uninitRead, loads>>

\* int b = fib(5);
Main16Call ==
  /\ MainCall("l16", 5)
  /\ mainF' = [mainF EXCEPT !.pc = "l16ret"]

Main16Ret ==
  /\ mainF.pc = "l16ret" /\ fibF.pc = "none" /\ ret # <<>>
  /\ mainF' = [mainF EXCEPT !.b = ret[1], !.pc = "l17"]
  /\ ret' = <<>>
  /\ UNCHANGED <<entry, fibF, startF, procF, mem, out, calls, iters,
                 overflow, uninitRead, loads>>

\* Main17 printing a
Main17_printsA ==
  /\ mainF.pc = "l17"
  /\ out' = Append(out, printf_d("5th fib: ", mainF.a))
  /\ mainF' = [mainF EXCEPT !.pc = "l18"]
  /\ UNCHANGED <<entry, fibF, startF, procF, mem, ret, calls, iters,
                 overflow, uninitRead, loads>>

\* printf("5th fib: %d\n", b);
Main17 ==
  /\ mainF.pc = "l17"
  /\ out' = Append(out, printf_d("5th fib: ", mainF.b))
  /\ mainF' = [mainF EXCEPT !.pc = "l18"]
  /\ UNCHANGED <<entry, fibF, startF, procF, mem, ret, calls, iters,
                 overflow, uninitRead, loads>>

\* return 0;
Main18 ==
  /\ mainF.pc = "l18"
  /\ ret' = <<0>>
  /\ calls' = Append(calls, Call("main", 0, 0, 0))
  /\ mainF' = NoFrame
  /\ UNCHANGED <<entry, fibF, startF, procF, mem, out, iters, overflow,
                 uninitRead, loads>>

(* ---- _start and process ---- *)
Start15 ==
  /\ startF.pc = "l15"
  /\ mem' = Line15(mem, startF.data)
  /\ startF' = [startF EXCEPT !.pc = "l16"]
  /\ UNCHANGED <<entry, fibF, mainF, procF, ret, out, calls, iters,
                 overflow, uninitRead, loads>>

\* return process(&data); the call
Start16Call ==
  /\ startF.pc = "l16"
  /\ procF' = [pc |-> "l11", data |-> startF.data]
  /\ startF' = [startF EXCEPT !.pc = "l16ret"]
  /\ UNCHANGED <<entry, fibF, mainF, mem, ret, out, calls, iters,
                 overflow, uninitRead, loads>>

\* return 0; // Break here ...
Process11 ==
  /\ procF.pc = "l11"
  /\ LET r == process(procF.data, mem)
     IN  /\ ret' = <<r.rv>>
         /\ loads' = loads \cup r.loads
         /\ calls' = Append(calls, Call("process", procF.data, r.rv, 0))
  /\ procF' = NoFrame
  /\ UNCHANGED <<entry, fibF, mainF, startF, mem, out, iters, overflow,
                 uninitRead>>

\* return process(&data); the return
Start16Ret ==
  /\ startF.pc = "l16ret" /\ procF.pc = "none" /\ ret # <<>>
  /\ calls' = Append(calls, Call("_start", entry.arg, ret[1], 0))
  /\ startF' = NoFrame
  /\ UNCHANGED <<entry, fibF, mainF, procF, mem, ret, out, iters, overflow,
                 uninitRead, loads>>

Next ==
  \/ Fib4 \/ Fib5Init \/ Fib5Cond \/ Fib6 \/ Fib7 \/ Fib8
  \/ Fib5Inc \/ Fib10
  \/ Main14Call \/ Main14Ret \/ Main15 \/ Main16Call \/ Main16Ret
  \/ Main17 \/ Main18
  \/ Start15 \/ Start16Call \/ Process11 \/ Start16Ret

Spec == Init /\ [][Next]_vars

\* the program runs on: a single thread that never blocks
FairSpec == Spec /\ WF_vars(Next)

-----------------------------------------------------------------------------
TypeOK ==
  /\ fibF.pc \in {"none", "l4", "l5init", "l5cond", "l6", "l7", "l8",
                  "l5inc", "l10", "trap"}
  /\ Len(ret) <= 1
  /\ iters >= 0

\* the invocation is over
Done ==
  /\ fibF.pc = "none" /\ mainF.pc = "none"
  /\ startF.pc = "none" /\ procF.pc = "none"

\* the completed calls of fn
CallsOf(fn) == {k \in DOMAIN calls : calls[k].fn = fn}

-----------------------------------------------------------------------------
(* The reference sequence f(1) = 0, f(2) = 1, f(k) = f(k-1) + f(k-2):      *)
(* RefPair(k) = <<f(k-1), f(k)>> for k >= 2.                               *)
RECURSIVE RefPair(_)
RefPair(k) ==
  IF k <= 2 THEN <<0, 1>>
  ELSE LET p == RefPair(k - 1) IN <<p[2], p[1] + p[2]>>

RefSeq(k) == IF k = 1 THEN 0 ELSE RefPair(k)[2]

-----------------------------------------------------------------------------
\* C1 (as stated): when main has stored both results, its local a is 21 and
\* its local b is 3.
C1_Stated ==
  mainF.pc = "l18" => mainF.a = 21 /\ mainF.b = 3

\* C1 (amended): fib(9) yields 34 and fib(5) yields 5; these are the values
\* main stores in its locals a and b, once each assignment is done, and the
\* values it prints.
C1_MainValues ==
  entry.fn = "main" =>
    /\ mainF.pc \in {"l15", "l16", "l16ret", "l17", "l18"} => mainF.a = 34
    /\ mainF.pc \in {"l17", "l18"} => mainF.b = 5
    /\ \A k \in CallsOf("fib") :
         /\ calls[k].arg = 9 => calls[k].rv = 34
         /\ calls[k].arg = 5 => calls[k].rv = 5
    /\ Len(out) >= 1 => out[1] = "9th fib: 34\n"
    /\ Len(out) >= 2 => out[2] = "5th fib: 5\n"

C1_Witness ==
  mainF.pc = "l18" /\ mainF.a = 34 /\ mainF.b = 5 /\ Len(out) = 2

\* C2 (as stated): every completed call fib(n) with n from 1 up to 46 (no
\* addition overflows) returned the nth term of the reference sequence.
C2_Stated ==
  \A k \in CallsOf("fib") :
    calls[k].arg >= 1 /\ calls[k].arg <= 46 =>
      calls[k].rv = RefSeq(calls[k].arg)

\* C2 (amended): every completed call fib(n) with n from 1 up to 46 returned
\* the (n+1)th term of the reference sequence, that is the nth term of the
\* sequence 1, 1, 2, 3, 5, ...; fib(0) returned 1.
C2_ShiftedTerm ==
  \A k \in CallsOf("fib") :
    /\ calls[k].arg >= 1 /\ calls[k].arg <= 46 =>
         calls[k].rv = RefSeq(calls[k].arg + 1)
    /\ calls[k].arg = 0 => calls[k].rv = 1

C2_Witness ==
  \E k \in CallsOf("fib") : calls[k].arg = 46 /\ calls[k].rv = 1836311903

\* C3: every completed call fib(k) with k from 3 up to 46 returned the sum
\* of what fib(k-1) and fib(k-2) return.
C3_Recurrence ==
  \A k \in CallsOf("fib") :
    calls[k].arg >= 3 /\ calls[k].arg <= 46 =>
      /\ fib(calls[k].arg - 1) # {} /\ fib(calls[k].arg - 2) # {}
      /\ \A r1 \in fib(calls[k].arg - 1), r2 \in fib(calls[k].arg - 2) :
           calls[k].rv = r1 + r2

C3_Witness ==
  \E k \in CallsOf("fib") : calls[k].arg = 3 /\ calls[k].rv = 2

\* C4: every completed call of process returned 0, whatever address it was
\* given and whatever the memory held, and the program read no address.
C4_ProcessReturnsZero ==
  /\ \A k \in CallsOf("process") : calls[k].rv = 0
  /\ loads = {}

C4_Witness ==
  /\ entry.fn = "process" /\ entry.arg = 0 /\ mem[0] = 255
  /\ \E k \in CallsOf("process") : calls[k].arg = 0 /\ calls[k].rv = 0

\* C5: once line 15 of _start has run, the 11 characters of "Hello world"
\* are the first 11 bytes of id, the terminating zero is its 12th and last
\* byte (literal and terminator are exactly as long as id), and x and y
\* hold 12 and 34.
C5_IdExactlyFilled ==
  (entry.fn = "_start" /\ startF.pc \in {"l16", "l16ret"}) =>
    LET d == startF.data IN
    /\ Len(HelloWorld) = 11
    /\ Len(StrLit(HelloWorld)) = IdSize
    /\ \A k \in 1..Len(HelloWorld) : mem[d + OffId + k - 1] = HelloWorld[k]
    /\ mem[d + OffId + IdSize - 1] = 0
    /\ OffX >= OffId + IdSize
    /\ LoadI32(mem, d + OffX) = 12
    /\ LoadI32(mem, d + OffY) = 34

C5_Witness ==
  /\ entry.fn = "_start" /\ startF.pc = "l16"
  /\ mem[startF.data + 10] = 100 /\ mem[startF.data + 11] = 0
  /\ \E k \in DOMAIN mem : mem[k] = 255

\* C6: a run of main writes at most two lines; the first is "9th fib: "
\* with the value the completed call fib(9) returned, the second is
\* "5th fib: " with the value the completed call fib(5) returned; when main
\* has returned both are written and the value returned is 0; no other
\* invocation writes anything.
C6_MainOutput ==
  /\ Len(out) <= 2
  /\ out # <<>> => entry.fn = "main"
  /\ Len(out) >= 1 =>
       /\ Len(calls) >= 1 /\ calls[1].fn = "fib" /\ calls[1].arg = 9
       /\ out[1] = "9th fib: " \o ToString(calls[1].rv) \o "\n"
  /\ Len(out) >= 2 =>
       /\ Len(calls) >= 2 /\ calls[2].fn = "fib" /\ calls[2].arg = 5
       /\ out[2] = "5th fib: " \o ToString(calls[2].rv) \o "\n"
  /\ (entry.fn = "main" /\ Len(calls) >= 2 /\ Len(out) < 2) =>
       Len(out) = 1 /\ mainF.pc \in {"l16ret", "l17"}
  /\ (entry.fn = "main" /\ Done) => Len(out) = 2 /\ ret = <<0>>

C6_Witness ==
  entry.fn = "main" /\ Done /\ out = <<"9th fib: 34\n", "5th fib: 5\n">>

\* the record _start creates
TheRecord ==
  [id |-> [k \in 1..IdSize |-> StrLit(HelloWorld)[k]], x |-> 12, y |-> 34]

\* C7: in a run of _start, when process is entered the address it received
\* refers to a record with id "Hello world", x 12 and y 34; the record is
\* the same when process has returned; _start returns what process
\* returned, which is 0.
C7_RecordAtBreakpoint ==
  entry.fn = "_start" =>
    /\ procF.pc = "l11" =>
         /\ procF.data = startF.data
         /\ ReadData(mem, procF.data) = TheRecord
    /\ (startF.pc = "l16ret" /\ procF.pc = "none") =>
         ReadData(mem, startF.data) = TheRecord
    /\ \A k \in CallsOf("_start") :
         /\ k = 2 /\ calls[1].fn = "process"
         /\ calls[k].rv = calls[1].rv
         /\ calls[k].rv = 0
         /\ ret = <<0>>

C7_Witness ==
  /\ entry.fn = "_start" /\ procF.pc = "l11"
  /\ ReadData(mem, procF.data).x = 12 /\ ReadData(mem, procF.data).y = 34

\* the loop counter of fib changes only at ++i, and then by exactly 1
CounterStep ==
  (fibF.pc \in {"l5cond", "l6", "l7", "l8", "l5inc"} /\ fibF'.pc # "trap") =>
     fibF'.i = IF fibF.pc = "l5inc" THEN fibF.i + 1 ELSE fibF.i

\* C8: every invocation comes to its end (only an overflowing addition,
\* which needs n >= 47, can end it in a trap instead of a return); a call
\* fib(n) that returned ran the loop body n-1 times if n >= 1 and not at
\* all if n <= 1; the counter i moves only by +1, once per iteration.
C8_Termination ==
  /\ <>(Done \/ fibF.pc = "trap")
  /\ [](fibF.pc = "trap" => overflow /\ fibF.n >= 47)
  /\ [](\A k \in CallsOf("fib") :
          calls[k].iters = IF calls[k].arg >= 1 THEN calls[k].arg - 1 ELSE 0)
  /\ [][CounterStep]_vars

C8_Witness ==
  \E k \in CallsOf("fib") : calls[k].arg = 46 /\ calls[k].iters = 45

\* C9: every completed call fib(n) with n <= 1 ran no iteration and
\* returned 1, and no run ever reads a local that was not written before.
C9_NoIterationBelowTwo ==
  /\ \A k \in CallsOf("fib") :
       calls[k].arg <= 1 => calls[k].iters = 0 /\ calls[k].rv = 1
  /\ ~uninitRead
  /\ (fibF.pc = "l8" => "a" \in fibF.init)
  /\ (fibF.pc = "l10" /\ fibF.n <= 1 => "a" \notin fibF.init)

C9_Witness ==
  /\ \E k \in CallsOf("fib") : calls[k].arg < 0 /\ calls[k].rv = 1
  /\ entry.fn = "fib"

\* C10: an addition leaves the range of int only in a call fib(n) with
\* n >= 47 (so never in main), and the call fib(47) does overflow.
C10_OverflowThreshold ==
  /\ overflow => entry.fn = "fib" /\ entry.arg >= 47
  /\ (entry.fn = "fib" /\ entry.arg = 47 /\ fibF.pc \in {"none", "trap"})
       => overflow
  /\ (fibF.pc = "l8" /\ fibF.n <= 46) =>
       /\ fibF.a >= 0 /\ fibF.b >= 0 /\ fibF.b <= INT_MAX - fibF.a
  /\ (fibF.pc = "l8" /\ fibF.n = 47 /\ fibF.i = 46) =>
       fibF.b > INT_MAX - fibF.a

C10_Witness ==
  /\ overflow /\ entry.fn = "fib" /\ entry.arg = 47
  /\ \E k \in CallsOf("fib") : calls[k].rv = -1323752223
====
